---- MODULE Spec2Model ----
(***************************************************************************)
(* A model of the report evaluator of src/evaluation/src/evaluator.py:     *)
(* the command line entry point main, the pipeline generate_report and the *)
(* operations it sequences (criteria extraction, claim extraction, search, *)
(* fact-check, scoring, revision, the three writers).                      *)
(*                                                                         *)
(* Python str values are TLA+ strings; TLC evaluates Len, SubSeq and \o on *)
(* strings, so the string methods the code calls are written out below on  *)
(* the characters of the string.  Python float values are exact rationals, *)
(* kept as integers in units of 1/Scale (1/(100*Scale) for overall): the   *)
(* rounding of IEEE doubles is not modelled.                               *)
(***************************************************************************)
EXTENDS Integers, Sequences, FiniteSets, TLC

-----------------------------------------------------------------------------
(* Python str methods                                                      *)

\* s[i] for a 1-based index i
CharAt(s, i) == SubSeq(s, i, i)

\* the whitespace str.strip() and str.split() remove; also regex \s
IsSpace(c) == c \in {" ", "\n", "\t"}

\* regex \w
IsWordChar(c) ==
    c \in {"a","b","c","d","e","f","g","h","i","j","k","l","m","n","o","p","q",
           "r","s","t","u","v","w","x","y","z","A","B","C","D","E","F","G","H",
           "I","J","K","L","M","N","O","P","Q","R","S","T","U","V","W","X","Y",
           "Z","0","1","2","3","4","5","6","7","8","9","_"}

LowerChar(c) ==
    CASE c = "A" -> "a" [] c = "B" -> "b" [] c = "C" -> "c" [] c = "D" -> "d"
      [] c = "E" -> "e" [] c = "F" -> "f" [] c = "G" -> "g" [] c = "H" -> "h"
      [] c = "I" -> "i" [] c = "J" -> "j" [] c = "K" -> "k" [] c = "L" -> "l"
      [] c = "M" -> "m" [] c = "N" -> "n" [] c = "O" -> "o" [] c = "P" -> "p"
      [] c = "Q" -> "q" [] c = "R" -> "r" [] c = "S" -> "s" [] c = "T" -> "t"
      [] c = "U" -> "u" [] c = "V" -> "v" [] c = "W" -> "w" [] c = "X" -> "x"
      [] c = "Y" -> "y" [] c = "Z" -> "z" [] OTHER -> c

\* str.lower(), by halves so that the depth of the recursion stays small
RECURSIVE Lower(_)
Lower(s) ==
    IF Len(s) = 0 THEN ""
    ELSE IF Len(s) = 1 THEN LowerChar(s)
    ELSE LET h == Len(s) \div 2
         IN  Lower(SubSeq(s, 1, h)) \o Lower(SubSeq(s, h + 1, Len(s)))

\* str.count(c) for a one-character c
CountChar(s, c) == Cardinality({i \in 1..Len(s) : CharAt(s, i) = c})

\* sub in s
Contains(s, sub) ==
    \E i \in 1..(Len(s) - Len(sub) + 1) : SubSeq(s, i, i + Len(sub) - 1) = sub

\* s.startswith(sub, p - 1): sub stands in s at the 1-based index p
StartsWithAt(s, p, sub) ==
    p + Len(sub) - 1 <= Len(s) /\ SubSeq(s, p, p + Len(sub) - 1) = sub

\* s[:k]
Prefix(s, k) == SubSeq(s, 1, IF k < Len(s) THEN k ELSE Len(s))

\* the least element of a non-empty set of numbers
Least(S) == CHOOSE i \in S : \A j \in S : i <= j

\* str.strip()
Strip(s) ==
    LET keep == {i \in 1..Len(s) : ~IsSpace(CharAt(s, i))}
    IN  IF keep = {} THEN ""
        ELSE SubSeq(s, Least(keep), Len(s) + 1 - Least({Len(s) + 1 - i : i \in keep}))

\* the elements of a set of numbers in increasing order
RECURSIVE Sorted(_)
Sorted(S) == IF S = {} THEN <<>> ELSE <<Least(S)>> \o Sorted(S \ {Least(S)})

\* str.split(c) for a one-character separator c: a sequence of k+1 pieces
\* for k occurrences of c, empty pieces included
Split(s, c) ==
    LET seps == Sorted({i \in 1..Len(s) : CharAt(s, i) = c})
        k == Len(seps)
    IN  [n \in 1..(k + 1) |->
           SubSeq(s, IF n = 1 THEN 1 ELSE seps[n - 1] + 1,
                     IF n = k + 1 THEN Len(s) ELSE seps[n] - 1)]

\* set(s.split()): the set of the maximal runs of non-whitespace characters
WordSet(s) ==
    LET starts == {i \in 1..Len(s) :
                     /\ ~IsSpace(CharAt(s, i))
                     /\ (i = 1 \/ IsSpace(CharAt(s, i - 1)))}
        ends == {i \in 1..Len(s) :
                   /\ ~IsSpace(CharAt(s, i))
                   /\ (i = Len(s) \/ IsSpace(CharAt(s, i + 1)))}
        EndOf(i) == Least({e \in ends : e >= i})
    IN  {SubSeq(s, i, EndOf(i)) : i \in starts}

\* n copies of s, by halves
RECURSIVE Rep(_, _)
Rep(s, n) ==
    IF n <= 0 THEN ""
    ELSE LET h == Rep(s, n \div 2)
         IN  IF n % 2 = 0 THEN h \o h ELSE h \o h \o s

-----------------------------------------------------------------------------
(* Python values that come out of json.loads.  A value is a record [t, v]: *)
(* t is the Python type, v the content (read only after t was looked at).  *)

PyStr(s)    == [t |-> "str", v |-> s]
PyInt(n)    == [t |-> "int", v |-> n]
PyFloat(n)  == [t |-> "float", v |-> n]      \* n in units of 1/100
PyNone      == [t |-> "NoneType", v |-> <<>>]
PyList(seq) == [t |-> "list", v |-> seq]     \* seq: a sequence of values
PyDict(r)   == [t |-> "dict", v |-> r]       \* r: a record of values

\* a list of str from a sequence of strings
StrList(seq) == PyList([i \in 1..Len(seq) |-> PyStr(seq[i])])

\* str(n) for n >= 0
RECURSIVE IntStr(_)
IntStr(n) ==
    IF n < 10 THEN SubSeq("0123456789", n + 1, n + 1)
    ELSE IntStr(n \div 10) \o SubSeq("0123456789", (n % 10) + 1, (n % 10) + 1)

\* the text an f-string puts for {x}
Format(x) ==
    CASE x.t = "str" -> x.v
      [] x.t = "int" -> IntStr(x.v)
      [] x.t = "NoneType" -> "None"
      [] OTHER -> "<object>"

\* the exceptions the model raises; NoExc when none is in flight.  raised_in
\* is the function the exception left
NoExc == [type |-> "none", code |-> 0, raised_in |-> "none"]
Raise(type) == [type |-> type, code |-> 0, raised_in |-> "none"]
SystemExit(code) == [type |-> "SystemExit", code |-> code, raised_in |-> "main"]
RaisedIn(e, function) == [e EXCEPT !.raised_in = function]

\* a handler "except BaseException" in the place of "except Exception"
IsException_base(e) == e.type # "none"

\* except Exception: SystemExit derives from BaseException, not Exception
IsException(e) == e.type \notin {"none", "SystemExit", "KeyboardInterrupt"}

-----------------------------------------------------------------------------
(* The language-model call: requests.post, raise_for_status, the content   *)
(* of the first choice, the removal of a Markdown code fence, json.loads.  *)
(* A response is [net, status, body, content]; content is the message text *)
(* as a sequence of chunks [k, j], k one of "fence_json" (three backquotes *)
(* and the word json), "fence" (three backquotes), "prose" and "json" (a   *)
(* complete JSON text, j its value).                                       *)

Chunk(k) == [k |-> k, j |-> PyNone]
Json(j) == [k |-> "json", j |-> j]
HttpOk(content) == [net |-> "ok", status |-> 200, body |-> "ok", content |-> content]
NetError == [net |-> "error", status |-> 0, body |-> "none", content |-> <<>>]
HttpStatus(n) == [net |-> "ok", status |-> n, body |-> "none", content |-> <<>>]
BadBody == [net |-> "ok", status |-> 200, body |-> "malformed", content |-> <<>>]

\* the fence is in text: the json marker contains the plain one too
IsFence(c) == c.k \in {"fence_json", "fence"}

\* text.split(marker)[1].split(fence)[0], the first marker being text[first]:
\* the chunks between it and the next fence (or the end)
AfterMarker(text, first) ==
    LET next == {i \in (first + 1)..Len(text) : IsFence(text[i])}
        stop == IF next = {} THEN Len(text) + 1 ELSE Least(next)
    IN  SubSeq(text, first + 1, stop - 1)

IsJsonMarker(c) == c.k = "fence_json"

\* lines 292-295 (and 359-362, 441-444)
StripFence(text) ==
    IF \E i \in 1..Len(text) : IsJsonMarker(text[i])
      THEN AfterMarker(text, Least({i \in 1..Len(text) : IsJsonMarker(text[i])}))
    ELSE IF \E i \in 1..Len(text) : IsFence(text[i])
      THEN AfterMarker(text, Least({i \in 1..Len(text) : IsFence(text[i])}))
    ELSE text

\* json.loads succeeds on exactly one complete JSON text
JsonParses(text) == Len(text) = 1 /\ text[1].k = "json"
JsonLoads(text) == text[1].j

\* requests.post ... json.loads of lines 288-296: the parsed value, or the
\* exception raised on the way
LLMJson(resp) ==
    IF resp.net = "error" THEN [ok |-> FALSE, exc |-> Raise("ConnectionError"), j |-> PyNone]
    ELSE IF resp.status >= 400
      THEN [ok |-> FALSE, exc |-> Raise("HTTPError"), j |-> PyNone]
    ELSE IF resp.body # "ok" THEN [ok |-> FALSE, exc |-> Raise("KeyError"), j |-> PyNone]
    ELSE LET text == StripFence(resp.content)
         IN  IF JsonParses(text) THEN [ok |-> TRUE, exc |-> NoExc, j |-> JsonLoads(text)]
             ELSE [ok |-> FALSE, exc |-> Raise("JSONDecodeError"), j |-> PyNone]

-----------------------------------------------------------------------------
(* extract_criteria                                                        *)

CriteriaFields == {"goals", "constraints", "must_include", "nice_to_have", "disallowed"}

Verbs == <<"include", "cover", "explain", "describe">>

\* one match of \b(?:include|cover|explain|describe)\s+(\w+) starting at p:
\* the index of the last character of the captured word, 0 when no match
MatchEnd(s, p) ==
    IF p > 1 /\ IsWordChar(CharAt(s, p - 1)) THEN 0
    ELSE LET vs == {i \in 1..Len(Verbs) : StartsWithAt(s, p, Verbs[i])}
         IN  IF vs = {} THEN 0
             ELSE LET v == Verbs[CHOOSE i \in vs : TRUE]
                      q == p + Len(v)
                      word == {i \in q..Len(s) :
                                 /\ i > q
                                 /\ IsWordChar(CharAt(s, i))
                                 /\ \A j \in q..(i - 1) : IsSpace(CharAt(s, j))}
                  IN  IF word = {} THEN 0
                      ELSE LET r == CHOOSE i \in word : TRUE
                           IN  CHOOSE e \in r..Len(s) :
                                 /\ \A j \in r..e : IsWordChar(CharAt(s, j))
                                 /\ (e = Len(s) \/ ~IsWordChar(CharAt(s, e + 1)))

CaptureStart(s, e) ==
    CHOOSE r \in 1..e : /\ \A j \in r..e : IsWordChar(CharAt(s, j))
                        /\ (r = 1 \/ ~IsWordChar(CharAt(s, r - 1)))

\* re.findall: the captured words of the successive non-overlapping matches
RECURSIVE FindAllFrom(_, _)
FindAllFrom(s, pos) ==
    LET starts == {p \in pos..Len(s) : MatchEnd(s, p) # 0}
    IN  IF starts = {} THEN <<>>
        ELSE LET p == Least(starts)
                 e == MatchEnd(s, p)
             IN  <<SubSeq(s, CaptureStart(s, e), e)>> \o FindAllFrom(s, e + 1)

_extract_criteria_basic(user_query) ==
    LET query_lower == Lower(user_query)
        goals == (IF Contains(query_lower, "compare")
                    THEN <<"Provide comprehensive comparison">> ELSE <<>>)
              \o (IF Contains(query_lower, "best")
                    THEN <<"Identify best options with justification">> ELSE <<>>)
              \o (IF Contains(query_lower, "how")
                    THEN <<"Provide actionable instructions">> ELSE <<>>)
        must_include == FindAllFrom(query_lower, 1)
    IN  [goals |-> StrList(IF goals # <<>> THEN goals
                           ELSE <<"Answer the user's question comprehensively">>),
         constraints |-> StrList(<<"Be factual and accurate", "Use credible sources">>),
         must_include |-> StrList(must_include),
         nice_to_have |-> StrList(<<"Recent information (2023-2024)", "Multiple perspectives">>),
         disallowed |-> StrList(<<"Speculation without evidence", "Outdated information">>)]

\* the Criteria constructor of line 297: a TypeError unless the value is a
\* dict whose keys are the five fields; the values are taken as they are
CriteriaFromJson(j) ==
    IF j.t = "dict" /\ DOMAIN j.v = CriteriaFields
      THEN [ok |-> TRUE, exc |-> NoExc, value |-> j.v]
      ELSE [ok |-> FALSE, exc |-> Raise("TypeError"), value |-> PyNone]

\* extract_criteria with a fixed default in the place of the heuristic
\* fallback of line 300
extract_criteria_default(key, user_query, resp) ==
    IF ~key
      THEN [value |-> _extract_criteria_basic(user_query), line |-> 260, requests |-> 0]
    ELSE LET parsed == LLMJson(resp)
             made == IF parsed.ok THEN CriteriaFromJson(parsed.j)
                     ELSE [ok |-> FALSE, exc |-> parsed.exc, value |-> PyNone]
         IN  IF made.ok
               THEN [value |-> made.value, line |-> 297, requests |-> 1]
               ELSE [value |-> [f \in CriteriaFields |-> StrList(<<>>)], line |-> 300,
                     requests |-> 1]

\* extract_criteria with the outcome resp of its request (unused without a
\* key): the Criteria returned, the line that returned it, the requests made
extract_criteria(key, user_query, resp) ==
    IF ~key
      THEN [value |-> _extract_criteria_basic(user_query), line |-> 260, requests |-> 0]
    ELSE LET parsed == LLMJson(resp)
             made == IF parsed.ok THEN CriteriaFromJson(parsed.j)
                     ELSE [ok |-> FALSE, exc |-> parsed.exc, value |-> PyNone]
         IN  IF made.ok
               THEN [value |-> made.value, line |-> 297, requests |-> 1]
               ELSE [value |-> _extract_criteria_basic(user_query), line |-> 300,
                     requests |-> 1]

-----------------------------------------------------------------------------
(* extract_claims                                                          *)

ClaimFields == {"claim_text", "evidence_needed", "priority"}

\* the fallback takes at most SentenceLimit pieces of the draft, keeps those
\* longer than MinClaimLen and returns at most ClaimLimit of them
SentenceLimit == 20
MinClaimLen == 20
ClaimLimit == 10

\* the loop of lines 381-388 over sentences[:20]
RECURSIVE ClaimsOf(_)
ClaimsOf(sentences) ==
    IF sentences = <<>> THEN <<>>
    ELSE LET sentence == Strip(Head(sentences))
         IN  (IF Len(sentence) > MinClaimLen
                THEN <<[claim_text |-> PyStr(sentence),
                        evidence_needed |-> PyStr("Web search verification"),
                        priority |-> PyStr("medium")]>>
                ELSE <<>>)
             \o ClaimsOf(Tail(sentences))

\* seq[:k]
Take(seq, k) == SubSeq(seq, 1, IF k < Len(seq) THEN k ELSE Len(seq))

\* _extract_claims_basic without the slice of line 390
_extract_claims_basic_uncapped(draft) ==
    ClaimsOf(Take(Split(draft, "."), SentenceLimit))

_extract_claims_basic(draft) ==
    LET sentences == Split(draft, ".")
        claims == ClaimsOf(Take(sentences, SentenceLimit))
    IN  Take(claims, ClaimLimit)

\* [Claim(**claim) for claim in claims_data], line 364: a TypeError unless
\* every item is a dict whose keys are the three fields.  Iterating a dict
\* gives its keys and iterating a str its characters, which are no
\* mappings; an empty dict or str gives the empty list; any other value is
\* not iterable
ClaimsFromJson(j) ==
    IF j.t = "list" /\ \A i \in 1..Len(j.v) :
                          j.v[i].t = "dict" /\ DOMAIN j.v[i].v = ClaimFields
      THEN [ok |-> TRUE, exc |-> NoExc, value |-> [i \in 1..Len(j.v) |-> j.v[i].v]]
    ELSE IF (j.t = "dict" /\ DOMAIN j.v = {}) \/ (j.t = "str" /\ j.v = "")
      THEN [ok |-> TRUE, exc |-> NoExc, value |-> <<>>]
      ELSE [ok |-> FALSE, exc |-> Raise("TypeError"), value |-> <<>>]

\* extract_claims with the slice of line 390 on line 364 too
extract_claims_capped(key, draft, resp) ==
    IF ~key
      THEN [value |-> _extract_claims_basic(draft), line |-> 327, requests |-> 0]
    ELSE LET parsed == LLMJson(resp)
             made == IF parsed.ok THEN ClaimsFromJson(parsed.j)
                     ELSE [ok |-> FALSE, exc |-> parsed.exc, value |-> <<>>]
         IN  IF made.ok
               THEN [value |-> Take(made.value, ClaimLimit), line |-> 364, requests |-> 1]
               ELSE [value |-> _extract_claims_basic(draft), line |-> 367,
                     requests |-> 1]

extract_claims(key, draft, resp) ==
    IF ~key
      THEN [value |-> _extract_claims_basic(draft), line |-> 327, requests |-> 0]
    ELSE LET parsed == LLMJson(resp)
             made == IF parsed.ok THEN ClaimsFromJson(parsed.j)
                     ELSE [ok |-> FALSE, exc |-> parsed.exc, value |-> <<>>]
         IN  IF made.ok
               THEN [value |-> made.value, line |-> 364, requests |-> 1]
               ELSE [value |-> _extract_claims_basic(draft), line |-> 367,
                     requests |-> 1]

-----------------------------------------------------------------------------
(* SearchManager                                                           *)

\* _detect_available_providers: the configured providers, in this order
_detect_available_providers(env) ==
       (IF "TAVILY_API_KEY" \in env THEN <<"tavily">> ELSE <<>>)
    \o (IF "SERPAPI_KEY" \in env THEN <<"serpapi">> ELSE <<>>)
    \o (IF "BING_API_KEY" \in env THEN <<"bing">> ELSE <<>>)
    \o (IF "GOOGLE_API_KEY" \in env /\ "GOOGLE_CSE_ID" \in env
          THEN <<"google">> ELSE <<>>)

\* _mock_search with one result only
_mock_search_one(query) ==
    <<[title |-> "Example Result 1", url |-> "https://example.com/1",
       snippet |-> "This is a relevant result about " \o Format(query)]>>

\* _mock_search with snippets that leave the query out
_mock_search_plain(query) ==
    <<[title |-> "Example Result 1", url |-> "https://example.com/1",
       snippet |-> "This is a relevant result"],
      [title |-> "Example Result 2", url |-> "https://example.com/2",
       snippet |-> "Another source"]>>

\* lines 232-245
_mock_search(query) ==
    <<[title |-> "Example Result 1", url |-> "https://example.com/1",
       snippet |-> "This is a relevant result about " \o Format(query)],
      [title |-> "Example Result 2", url |-> "https://example.com/2",
       snippet |-> "Another source discussing " \o Format(query)]>>

\* the length Tavily content is cut to, line 171
TavilySnippetLen == 200

\* _search_google, _search_tavily, _search_serpapi, _search_bing on the
\* outcome resp of the request: [net, status, body, items], an item being
\* [title, url, text] under the provider's own key names.  Any exception of
\* the request or of reading the body gives the empty list
_search_provider(provider, resp) ==
    IF resp.net = "error" \/ resp.status >= 400 \/ resp.body # "ok"
      THEN <<>>
      ELSE [i \in 1..Len(resp.items) |->
              [title |-> resp.items[i].title,
               url |-> resp.items[i].url,
               snippet |-> IF provider = "tavily"
                             THEN Prefix(resp.items[i].text, TavilySnippetLen)
                             ELSE resp.items[i].text]]

\* search with a second try: the mock results when the provider's request
\* gave nothing
search_failover(providers, query, num_results, resp) ==
    IF providers = <<>>
      THEN [results |-> _mock_search(query), provider |-> "mock", requests |-> 0]
    ELSE IF _search_provider(providers[1], resp) = <<>>
      THEN [results |-> _mock_search(query), provider |-> "mock", requests |-> 1]
      ELSE [results |-> _search_provider(providers[1], resp),
            provider |-> providers[1], requests |-> 1]

\* search: the results, the provider that gave them and the number of
\* requests sent.  num_results goes into the request; how many items come
\* back is the provider's answer
search(providers, query, num_results, resp) ==
    IF providers = <<>>
      THEN [results |-> _mock_search(query), provider |-> "mock", requests |-> 0]
      ELSE [results |-> _search_provider(providers[1], resp),
            provider |-> providers[1], requests |-> 1]

-----------------------------------------------------------------------------
(* fact_check_claim                                                        *)

\* the matching sources with overlap >= 0.3 in the place of overlap > 0.3
MatchCount_atleast(claim_words, sources) ==
    Cardinality({i \in 1..Len(sources) :
        10 * Cardinality(claim_words \cap WordSet(Lower(sources[i].snippet)))
          >= 3 * Cardinality(claim_words)})

\* the matching sources of lines 463-468; overlap > 0.3 is
\* 10 * len(claim_words & snippet_words) > 3 * len(claim_words)
MatchCount(claim_words, sources) ==
    Cardinality({i \in 1..Len(sources) :
        10 * Cardinality(claim_words \cap WordSet(Lower(sources[i].snippet)))
          > 3 * Cardinality(claim_words)})

\* confidence is in units of 1/100
_fact_check_basic(claim, sources) ==
    IF claim.claim_text.t # "str"
      THEN [ok |-> FALSE, exc |-> Raise("AttributeError"), value |-> <<>>]
    ELSE LET claim_words == WordSet(Lower(claim.claim_text.v))
         IN  IF sources # <<>> /\ claim_words = {}
               THEN [ok |-> FALSE, exc |-> Raise("ZeroDivisionError"), value |-> <<>>]
             ELSE LET match_count == MatchCount(claim_words, sources)
                      verdict == IF match_count >= 2 THEN "supported" ELSE "insufficient"
                      confidence == IF match_count >= 2 THEN 70
                                    ELSE IF match_count = 1 THEN 50 ELSE 30
                      rationale ==
                        IF match_count >= 2
                          THEN "Found " \o IntStr(match_count)
                                 \o " sources with matching content"
                        ELSE IF match_count = 1 THEN "Limited evidence found"
                        ELSE "No clear supporting evidence found"
                  IN  [ok |-> TRUE, exc |-> NoExc,
                       value |-> [claim |-> claim.claim_text,
                                  verdict |-> PyStr(verdict),
                                  confidence |-> confidence,
                                  rationale |-> PyStr(rationale),
                                  sources |-> sources]]

\* result.get(key, default) of lines 449-451
DictGet(d, key, default) == IF key \in DOMAIN d THEN d[key] ELSE default

\* lines 445-453: the FactCheckResult made from the parsed answer, or the
\* exception of result.get on a value that is no dict and of float()
FactCheckFromJson(claim, j, search_results) ==
    IF j.t # "dict"
      THEN [ok |-> FALSE, exc |-> Raise("AttributeError"), value |-> <<>>]
    ELSE LET c == DictGet(j.v, "confidence", PyFloat(50))
         IN  IF c.t \notin {"float", "int"}
               THEN [ok |-> FALSE, exc |-> Raise("TypeError"), value |-> <<>>]
               ELSE [ok |-> TRUE, exc |-> NoExc,
                     value |-> [claim |-> claim.claim_text,
                                verdict |-> DictGet(j.v, "verdict", PyStr("insufficient")),
                                confidence |-> IF c.t = "int" THEN 100 * c.v ELSE c.v,
                                rationale |-> DictGet(j.v, "rationale",
                                                      PyStr("Unable to determine")),
                                sources |-> search_results]]

\* fact_check_claim with a second request after a failed one
fact_check_claim_retry(key, claim, search_results, resp) ==
    IF ~key
      THEN [r |-> _fact_check_basic(claim, search_results), line |-> 399, requests |-> 0]
    ELSE LET parsed == LLMJson(resp)
             made == IF parsed.ok THEN FactCheckFromJson(claim, parsed.j, search_results)
                     ELSE [ok |-> FALSE, exc |-> parsed.exc, value |-> <<>>]
         IN  IF made.ok
               THEN [r |-> made, line |-> 447, requests |-> 1]
               ELSE [r |-> _fact_check_basic(claim, search_results), line |-> 456,
                     requests |-> 2]

\* fact_check_claim after its search: the FactCheckResult, or the exception
\* that leaves the method; the line that returned; the requests made
fact_check_claim(key, claim, search_results, resp) ==
    IF ~key
      THEN [r |-> _fact_check_basic(claim, search_results), line |-> 399, requests |-> 0]
    ELSE LET parsed == LLMJson(resp)
             made == IF parsed.ok THEN FactCheckFromJson(claim, parsed.j, search_results)
                     ELSE [ok |-> FALSE, exc |-> parsed.exc, value |-> <<>>]
         IN  IF made.ok
               THEN [r |-> made, line |-> 447, requests |-> 1]
               ELSE [r |-> _fact_check_basic(claim, search_results), line |-> 456,
                     requests |-> 1]

-----------------------------------------------------------------------------
(* score_report                                                            *)

\* A score component is a float; the model keeps it exact, as an integer in
\* units of 1/Scale.  Scale is a multiple of every denominator the code
\* divides by (1..10 fact-checks, the length of must_include, 2).
Scale == 8 * 9 * 5 * 7

\* calculate_overall without its assignment: overall stays as constructed
calculate_overall_stale(score) == score

\* EvaluationScore.calculate_overall; overall is in units of 1/(100*Scale)
calculate_overall(score) ==
    [score EXCEPT !.overall = 45 * score.accuracy + 30 * score.coverage
                              + 15 * score.citations_quality
                              + 10 * score.clarity_structure]

\* len(fact_checks), without the floor of line 497
TotalClaims_nofloor(fact_checks) == Len(fact_checks)

\* len(fact_checks) if fact_checks else 1
TotalClaims(fact_checks) == IF Len(fact_checks) # 0 THEN Len(fact_checks) ELSE 1

\* len(criteria.must_include) if criteria.must_include else 1, for a list or
\* a str
CoverageItems(must_include) ==
    IF Len(must_include.v) # 0 THEN Len(must_include.v) ELSE 1

\* the items the generator of lines 502-503 iterates: those of a list, the
\* characters of a str
ItemsOf(x) ==
    IF x.t = "str" THEN [i \in 1..Len(x.v) |-> PyStr(CharAt(x.v, i))] ELSE x.v

\* the number of items found in the draft
Covered(items, draft) ==
    Cardinality({i \in 1..Len(items) : Contains(Lower(draft), Lower(items[i].v))})

\* the set of lines 507-510
UniqueSources(fact_checks) ==
    UNION {{fact_checks[i].sources[k].url : k \in 1..Len(fact_checks[i].sources)} :
             i \in 1..Len(fact_checks)}

IsStr(x, s) == x.t = "str" /\ x.v = s

\* sum(1 for fc in fact_checks if fc.verdict == verdict)
CountVerdict(fact_checks, verdict) ==
    Cardinality({i \in 1..Len(fact_checks) : IsStr(fact_checks[i].verdict, verdict)})

Min(a, b) == IF a < b THEN a ELSE b

\* lines 514-519, in units of 1/Scale
ClarityScore(draft) ==
    3 * Scale
    + (IF Len(draft) > 500 /\ Len(draft) < 5000 THEN Scale ELSE 0)
    + (IF CountChar(draft, "#") > 3 THEN Scale ELSE 0)

NoScore == [accuracy |-> 0, coverage |-> 0, citations_quality |-> 0,
            clarity_structure |-> 0, overall |-> 0]

\* score_report: the EvaluationScore, or the exception that leaves the
\* method.  a / b raises ZeroDivisionError for b = 0; iterating a value that
\* is no list or str, or len() of it, raises TypeError; item.lower() of an
\* item that is no str raises AttributeError
score_report(draft, criteria, fact_checks) ==
    LET must_include == criteria.must_include
        supported == CountVerdict(fact_checks, "supported")
        total_claims == TotalClaims(fact_checks)
    IN  IF total_claims = 0
          THEN [ok |-> FALSE, exc |-> Raise("ZeroDivisionError"), value |-> NoScore]
        ELSE IF must_include.t \notin {"list", "str"}
          THEN [ok |-> FALSE, exc |-> Raise("TypeError"), value |-> NoScore]
        ELSE IF \E i \in 1..Len(ItemsOf(must_include)) : ItemsOf(must_include)[i].t # "str"
          THEN [ok |-> FALSE, exc |-> Raise("AttributeError"), value |-> NoScore]
        ELSE LET coverage_items == CoverageItems(must_include)
                 covered == Covered(ItemsOf(must_include), draft)
             IN  IF coverage_items = 0
                   THEN [ok |-> FALSE, exc |-> Raise("ZeroDivisionError"), value |-> NoScore]
                   ELSE [ok |-> TRUE, exc |-> NoExc,
                         value |-> calculate_overall(
                           [accuracy |-> (supported * 5 * Scale) \div total_claims,
                            coverage |-> (covered * 5 * Scale) \div coverage_items,
                            citations_quality |->
                              Min((Cardinality(UniqueSources(fact_checks)) * Scale) \div 2,
                                  5 * Scale),
                            clarity_structure |-> Min(ClarityScore(draft), 5 * Scale),
                            overall |-> 0])]

\* score.overall <= 3.5 in the place of score.overall < 3.5
BelowFixThreshold_inclusive(score) == score.overall <= 350 * Scale

\* score.overall < 3.5 and score.overall < 3.0, overall being in units of
\* 1/(100*Scale)
BelowFixThreshold(score) == score.overall < 350 * Scale
BelowPoorThreshold(score) == score.overall < 300 * Scale

-----------------------------------------------------------------------------
(* auto_fix_draft                                                          *)

\* the warnings of lines 587-590, for fact_checks[from..]
RECURSIVE Warnings(_, _)
Warnings(fact_checks, from) ==
    IF from > Len(fact_checks) THEN ""
    ELSE (IF IsStr(fact_checks[from].verdict, "contradicted")
            THEN "\n**Note**: The claim '" \o Prefix(Format(fact_checks[from].claim), 50)
                   \o "...' may need verification.\n"
            ELSE "")
         \o Warnings(fact_checks, from + 1)

\* the lines of the sources section, lines 595-597, for fact_checks[from..]
RECURSIVE SourceLines(_, _)
SourceLines(fact_checks, from) ==
    IF from > Len(fact_checks) THEN ""
    ELSE (IF fact_checks[from].sources # <<>>
            THEN "[" \o IntStr(from) \o "] " \o fact_checks[from].sources[1].url \o "\n"
            ELSE "")
         \o SourceLines(fact_checks, from + 1)

\* _auto_fix_basic with a sources section over every fact-check
_auto_fix_basic_unsliced(draft, fact_checks) ==
    LET warned == draft \o Warnings(fact_checks, 1)
    IN  IF ~Contains(warned, "## Sources") /\ ~Contains(warned, "## References")
          THEN warned \o "\n\n## Sources\n" \o SourceLines(fact_checks, 1)
          ELSE warned

\* lines 582-599
_auto_fix_basic(draft, fact_checks) ==
    LET warned == draft \o Warnings(fact_checks, 1)
    IN  IF ~Contains(warned, "## Sources") /\ ~Contains(warned, "## References")
          THEN warned \o "\n\n## Sources\n" \o SourceLines(Take(fact_checks, 5), 1)
          ELSE warned

\* the message content as the text the model wrote
RECURSIVE Render(_)
Render(content) ==
    IF content = <<>> THEN ""
    ELSE (IF Head(content).k = "prose" THEN Head(content).j.v
          ELSE "<" \o Head(content).k \o ">")
         \o Render(Tail(content))

\* auto_fix_draft without the test of line 536: a request is made with or
\* without a key
auto_fix_draft_keyless(key, draft, fact_checks, resp) ==
    IF resp.net = "ok" /\ resp.status < 400 /\ resp.body = "ok"
      THEN [value |-> Render(resp.content), line |-> 577, requests |-> 1]
      ELSE [value |-> _auto_fix_basic(draft, fact_checks), line |-> 580, requests |-> 1]

\* auto_fix_draft with the outcome resp of its request: lines 575-577 read
\* the content and return it as it is
auto_fix_draft(key, draft, fact_checks, resp) ==
    IF ~key
      THEN [value |-> _auto_fix_basic(draft, fact_checks), line |-> 537, requests |-> 0]
    ELSE IF resp.net = "ok" /\ resp.status < 400 /\ resp.body = "ok"
      THEN [value |-> Render(resp.content), line |-> 577, requests |-> 1]
      ELSE [value |-> _auto_fix_basic(draft, fact_checks), line |-> 580, requests |-> 1]

-----------------------------------------------------------------------------
(* the writers                                                             *)

NoFile == [written |-> FALSE, auto_fixed |-> FALSE, fixed_draft_length |-> PyNone,
           original_draft_length |-> 0, overall |-> 0, fixed |-> ""]

\* report.md and report.html carry the revised draft when overall < 3.5
\* (lines 703-709 and 822-830); the other fields are those of report.json
_save_text_report(fixed, score) ==
    [NoFile EXCEPT !.written = TRUE,
                   !.overall = score.overall,
                   !.fixed = IF BelowFixThreshold(score) THEN fixed ELSE ""]

\* the report of lines 854-872, without its timestamp and the fields copied
\* from the arguments unchanged (query, criteria, fact_checks)
_save_json_report(original, fixed, score) ==
    [written |-> TRUE,
     auto_fixed |-> BelowFixThreshold(score),
     fixed_draft_length |-> IF fixed # original THEN PyInt(Len(fixed)) ELSE PyNone,
     original_draft_length |-> Len(original),
     overall |-> score.overall,
     fixed |-> ""]

-----------------------------------------------------------------------------
(* The inputs of a run: the command line, the draft file, the environment  *)
(* variables, and what the search provider and the language model answer.  *)

\* the number of sentences of the long drafts
MaxSentences == 22
\* the number of items of the longest array the model answers with
MaxItems == 11

Letter(i) == CharAt("abcdefghijklmnopqrstuvwxyz", ((i - 1) % 26) + 1)

\* sentences from..to of a draft; sentence i is longer than 20 characters
\* when i > short, and 20 characters long otherwise
RECURSIVE Sentences(_, _, _)
Sentences(from, to, short) ==
    IF from > to THEN ""
    ELSE (IF from > short THEN "Item " \o Rep(Letter(from), 12) \o " holds. "
          ELSE Rep(Letter(from), 20) \o ". ")
         \o Sentences(from + 1, to, short)

Queries ==
    <<"Compare the best databases",
      "Explain cats and describe birds">>

Drafts ==
    <<"",
      "Cats are small furry animals. 12345678901234567890. "
        \o "Alpha beta gamma d e f g h i j. Alpha beta gamma e f g h i j. Hi.",
      Sentences(1, MaxSentences, 0),
      Sentences(1, MaxSentences, 15),
      "# Report\n## Intro\nCats and birds are animals people keep. \n## Sources\n"
        \o Rep("x", 480),
      "Cats and birds. " \o Rep("a", 484),
      "Dogs bark loudly at night." \o Rep("\n", 4974)>>

Environments ==
    <<{},
      {"GOOGLE_API_KEY"},
      {"OPENAI_API_KEY"},
      {"OPENAI_API_KEY", "BING_API_KEY", "SERPAPI_KEY"},
      {"TAVILY_API_KEY", "GOOGLE_API_KEY", "GOOGLE_CSE_ID"}>>

Prose(s) == [k |-> "prose", j |-> PyStr(s)]
Fenced(j) == HttpOk(<<Prose("Here it is:"), Chunk("fence_json"), Json(j), Chunk("fence")>>)
NoResp == [net |-> "none", status |-> 0, body |-> "none", content |-> <<>>]

GoodCriteria ==
    [goals |-> StrList(<<"Describe pets">>),
     constraints |-> StrList(<<>>),
     must_include |-> StrList(<<"Cats", "birds", "fish">>),
     nice_to_have |-> StrList(<<"History">>),
     disallowed |-> StrList(<<>>)]

\* what the model may answer to the criteria prompt
CriteriaResponses ==
    <<NetError,
      HttpStatus(500),
      BadBody,
      HttpOk(<<Prose("I cannot answer that.")>>),
      HttpOk(<<Chunk("fence"), Prose("goals: none"), Chunk("fence")>>),
      HttpOk(<<Json(PyList(<<PyStr("goals")>>))>>),
      HttpOk(<<Json(PyDict([goals |-> StrList(<<"Describe pets">>)]))>>),
      HttpOk(<<Json(PyDict([goals |-> StrList(<<>>), constraints |-> StrList(<<>>),
                            must_include |-> StrList(<<>>), nice_to_have |-> StrList(<<>>),
                            disallowed |-> StrList(<<>>), notes |-> PyStr("none")]))>>),
      Fenced(PyDict(GoodCriteria)),
      HttpOk(<<Chunk("fence"), Json(PyDict(GoodCriteria)), Chunk("fence")>>),
      HttpOk(<<Json(PyDict([GoodCriteria EXCEPT !.must_include = PyNone]))>>)>>

ClaimItem(text) ==
    PyDict([claim_text |-> PyStr(text), evidence_needed |-> PyStr("A source"),
            priority |-> PyStr("high")])

\* what the model may answer to the claims prompt
ClaimsResponses ==
    <<NetError,
      HttpStatus(429),
      HttpOk(<<Prose("No claims found.")>>),
      HttpOk(<<Json(PyDict([claims |-> PyList(<<>>)]))>>),
      HttpOk(<<Json(PyList(<<ClaimItem("Cats are animals"),
                             PyDict([claim_text |-> PyStr("Dogs bark")])>>))>>),
      HttpOk(<<Json(PyList(<<>>))>>),
      Fenced(PyList(<<ClaimItem("Cats are animals"), ClaimItem("")>>)),
      HttpOk(<<Json(PyList(<<ClaimItem("Cats are animals"), ClaimItem("Birds can fly"),
                             ClaimItem("Fish live in water")>>))>>),
      HttpOk(<<Json(PyList([i \in 1..MaxItems |->
                              ClaimItem("Claim " \o Letter(i) \o " is true")]))>>)>>

Verdict(v, c) ==
    PyDict([verdict |-> PyStr(v), confidence |-> c, rationale |-> PyStr("Checked")])

\* what the model answers to the successive fact-check prompts of a run,
\* repeated from the start when the run has more fact-checks
LLMScripts ==
    <<<<Fenced(Verdict("supported", PyFloat(90)))>>,
      <<NetError>>,
      <<HttpOk(<<Json(Verdict("contradicted", PyFloat(80)))>>), HttpStatus(500)>>,
      <<HttpOk(<<Json(PyDict([verdict |-> PyStr("maybe"), confidence |-> PyInt(7)]))>>),
        Fenced(Verdict("insufficient", PyStr("high"))),
        HttpOk(<<Json(PyList(<<>>))>>),
        HttpOk(<<Json(Verdict("supported", PyFloat(100)))>>)>>>>

Item(title, url, text) == [title |-> title, url |-> url, text |-> text]
SearchOk(items) == [net |-> "ok", status |-> 200, body |-> "ok", items |-> items]
SearchFailed(net, status, body) ==
    [net |-> net, status |-> status, body |-> body, items |-> <<>>]

\* what the provider answers to a query
SearchResponse(kind, query) ==
    CASE kind = "echo" ->
           SearchOk(<<Item("A", "https://a.example/1", query),
                      Item("B", "https://b.example/2", "Nothing to see here"),
                      Item("A again", "https://a.example/1", "More: " \o query)>>)
      [] kind = "one" -> SearchOk(<<Item("A", "https://a.example/1", query)>>)
      [] kind = "fixed" ->
           SearchOk(<<Item("G", "https://g.example/1", "Alpha beta gamma"),
                      Item("H", "https://h.example/2", "gamma BETA alpha\nomega")>>)
      [] kind = "long" ->
           SearchOk(<<Item("L", "https://l.example/1", Rep("z", 199) \o " " \o query),
                      Item("M", "https://m.example/2", query)>>)
      [] kind = "own" ->
           SearchOk(<<Item("P", "https://p.example/?q=" \o query, query),
                      Item("Q", "https://q.example/?q=" \o query, "About " \o query)>>)
      [] kind = "empty" -> SearchOk(<<>>)
      [] kind = "timeout" -> SearchFailed("error", 0, "none")
      [] kind = "http503" -> SearchFailed("ok", 503, "none")
      [] kind = "html" -> SearchFailed("ok", 200, "malformed")

\* what the provider answers to the successive searches of a run, repeated
\* from the start when the run has more searches
SearchScripts ==
    <<<<"echo">>,
      <<"timeout", "one", "http503", "echo">>,
      <<"long", "fixed", "html", "empty">>,
      <<"own">>>>

\* the pairs of a search script and a model script a run is checked with
Worlds == <<<<1, 1>>, <<2, 2>>, <<3, 3>>, <<1, 4>>, <<2, 3>>, <<4, 1>>>>

\* what the model may answer to the revision prompt
AutoFixResponses ==
    <<NetError,
      HttpStatus(500),
      HttpOk(<<Prose("# Revised\nCats are small [1].\n## Sources\n[1] https://a.example/1\n")>>)>>

\* script[i], the script repeated as often as needed
Cyc(script, i) == script[((i - 1) % Len(script)) + 1]

-----------------------------------------------------------------------------
(* The state of a run                                                      *)

VARIABLES
    pc,             \* where the process is
    env,            \* the environment variables that are set
    draft_exists,   \* whether the file of --draft exists
    user_query,     \* --query
    draft,          \* the content of the draft file
    world,          \* [search, llm]: the scripts of the provider and the model
    api_key,        \* ReportEvaluator.api_key is set
    providers,      \* SearchManager.providers
    criteria, claims, fact_checks, score, fixed_draft,   \* generate_report's locals
    report_md, report_html, report_json,                 \* the files written
    exc,            \* the exception in flight
    exit_code,      \* the exit code of the process, -1 while it runs
    llm_resp,       \* the answer of the model to the last operation
    search_resp,    \* the answer of the search provider to the last operation
    search_results, \* what the last call of SearchManager.search returned
    search_provider,\* the provider the last call of SearchManager.search used
    returned_at,    \* the line of the return statement of the last operation
    llm_requests,   \* the requests sent to the model
    search_calls,   \* the calls of SearchManager.search
    search_requests,\* the requests sent to a search provider
    auto_fix_calls, \* the calls of auto_fix_draft
    calls           \* the methods generate_report has called, in order

vars == <<pc, env, draft_exists, user_query, draft, world, api_key, providers,
          criteria, claims, fact_checks, score, fixed_draft,
          report_md, report_html, report_json, exc, exit_code,
          llm_resp, search_resp, search_results, search_provider, returned_at,
          llm_requests, search_calls, search_requests, auto_fix_calls, calls>>

inputs == <<env, draft_exists, user_query, draft, world>>
evaluator == <<api_key, providers>>
reports == <<report_md, report_html, report_json>>
counters == <<llm_requests, search_calls, search_requests, auto_fix_calls>>

NoCriteria == [goals |-> PyNone, constraints |-> PyNone, must_include |-> PyNone,
               nice_to_have |-> PyNone, disallowed |-> PyNone]
NoSearchResp == SearchFailed("none", 0, "none")

Init ==
    /\ pc = "main"
    /\ \E e \in 1..Len(Environments) : env = Environments[e]
    /\ draft_exists \in BOOLEAN
    /\ \E q \in 1..Len(Queries) : user_query = Queries[q]
    /\ \E d \in 1..Len(Drafts) : draft = IF draft_exists THEN Drafts[d] ELSE ""
    /\ \E w \in 1..Len(Worlds) :
         world = [search |-> IF draft_exists /\ _detect_available_providers(env) # <<>>
                               THEN SearchScripts[Worlds[w][1]] ELSE <<>>,
                  llm |-> IF draft_exists /\ "OPENAI_API_KEY" \in env
                            THEN LLMScripts[Worlds[w][2]] ELSE <<>>]
    /\ api_key = FALSE
    /\ providers = <<>>
    /\ criteria = NoCriteria
    /\ claims = <<>>
    /\ fact_checks = <<>>
    /\ score = NoScore
    /\ fixed_draft = ""
    /\ report_md = NoFile
    /\ report_html = NoFile
    /\ report_json = NoFile
    /\ exc = NoExc
    /\ exit_code = -1
    /\ llm_resp = NoResp
    /\ search_resp = NoSearchResp
    /\ search_results = <<>>
    /\ search_provider = "none"
    /\ returned_at = 0
    /\ llm_requests = 0
    /\ search_calls = 0
    /\ search_requests = 0
    /\ auto_fix_calls = 0
    /\ calls = <<>>

-----------------------------------------------------------------------------
(* main and generate_report                                                *)

\* lines 904-914: a missing draft file ends the process with code 1;
\* otherwise the evaluator is constructed
Main ==
    /\ pc = "main"
    /\ IF ~draft_exists
         THEN /\ exit_code' = 1
              /\ pc' = "exited"
              /\ UNCHANGED evaluator
         ELSE /\ api_key' = ("OPENAI_API_KEY" \in env)
              /\ providers' = _detect_available_providers(env)
              /\ pc' = "extract_criteria"
              /\ UNCHANGED exit_code
    /\ UNCHANGED calls
    /\ UNCHANGED <<inputs, criteria, claims, fact_checks, score, fixed_draft, reports,
                   exc, llm_resp, search_resp, search_results, search_provider, returned_at, counters>>

\* step 1, line 609
ExtractCriteria ==
    /\ pc = "extract_criteria"
    /\ \E n \in 1..Len(CriteriaResponses) :
         LET resp == IF api_key THEN CriteriaResponses[n] ELSE NoResp
             r == extract_criteria(api_key, user_query, resp)
         IN  /\ criteria' = r.value
             /\ llm_resp' = resp
             /\ returned_at' = r.line
             /\ llm_requests' = llm_requests + r.requests
    /\ pc' = "extract_claims"
    /\ calls' = Append(calls, "extract_criteria")
    /\ UNCHANGED <<inputs, evaluator, claims, fact_checks, score, fixed_draft, reports,
                   exc, exit_code, search_resp, search_results, search_provider, search_calls,
                   search_requests, auto_fix_calls>>

\* the loop over every claim, without the slice
ToCheck_all(cs) == cs

\* claims[:10], line 619
ToCheck(cs) == Take(cs, 10)

\* step 4 without waiting for the loop of step 3
LoopOrScore_early(done, todo) == "score_report"

\* the loop of lines 619-622 after done of todo turns: another turn, or
\* step 4
LoopOrScore(done, todo) == IF done = todo THEN "score_report" ELSE "fact_check"

\* step 2, line 613
ExtractClaims ==
    /\ pc = "extract_claims"
    /\ \E n \in 1..Len(ClaimsResponses) :
         LET resp == IF api_key THEN ClaimsResponses[n] ELSE NoResp
             r == extract_claims(api_key, draft, resp)
         IN  /\ claims' = r.value
             /\ llm_resp' = resp
             /\ returned_at' = r.line
             /\ llm_requests' = llm_requests + r.requests
             /\ pc' = LoopOrScore(0, Len(ToCheck(r.value)))
    /\ calls' = Append(calls, "extract_claims")
    /\ UNCHANGED <<inputs, evaluator, criteria, fact_checks, score, fixed_draft, reports,
                   exc, exit_code, search_resp, search_results, search_provider, search_calls,
                   search_requests, auto_fix_calls>>

\* step 3, one turn of the loop of lines 619-622: fact_check_claim of the
\* next claim, its search included
FactCheckClaim ==
    /\ pc = "fact_check"
    /\ LET i == Len(fact_checks) + 1
           claim == ToCheck(claims)[i]
           sresp == IF providers = <<>> THEN NoSearchResp
                    ELSE SearchResponse(Cyc(world.search, i), Format(claim.claim_text))
           found == search(providers, claim.claim_text, 3, sresp)
           resp == IF api_key THEN Cyc(world.llm, i) ELSE NoResp
           fc == fact_check_claim(api_key, claim, found.results, resp)
       IN  /\ search_resp' = sresp
           /\ search_results' = found.results
           /\ search_provider' = found.provider
           /\ search_calls' = search_calls + 1
           /\ search_requests' = search_requests + found.requests
           /\ llm_resp' = resp
           /\ llm_requests' = llm_requests + fc.requests
           /\ returned_at' = fc.line
           /\ IF fc.r.ok
                THEN /\ fact_checks' = Append(fact_checks, fc.r.value)
                     /\ pc' = LoopOrScore(i, Len(ToCheck(claims)))
                     /\ UNCHANGED exc
                ELSE /\ exc' = RaisedIn(fc.r.exc, "fact_check_claim")
                     /\ pc' = "except"
                     /\ UNCHANGED fact_checks
    /\ calls' = Append(calls, "fact_check_claim")
    /\ UNCHANGED <<inputs, evaluator, criteria, claims, score, fixed_draft, reports,
                   exit_code, auto_fix_calls>>

\* step 4 and the test of step 5, lines 626-630
ScoreReport ==
    /\ pc = "score_report"
    /\ LET r == score_report(draft, criteria, fact_checks)
       IN  IF r.ok
             THEN /\ score' = r.value
                  /\ fixed_draft' = draft
                  /\ pc' = IF BelowFixThreshold(r.value) THEN "auto_fix"
                           ELSE "save_markdown"
                  /\ UNCHANGED exc
             ELSE /\ exc' = RaisedIn(r.exc, "score_report")
                  /\ pc' = "except"
                  /\ UNCHANGED <<score, fixed_draft>>
    /\ llm_resp' = NoResp
    /\ search_resp' = NoSearchResp
    /\ search_results' = <<>>
    /\ search_provider' = "none"
    /\ returned_at' = 530
    /\ calls' = Append(calls, "score_report")
    /\ UNCHANGED <<inputs, evaluator, criteria, claims, fact_checks, reports, exit_code,
                   counters>>

\* step 5, line 632
AutoFixDraft ==
    /\ pc = "auto_fix"
    /\ \E n \in 1..Len(AutoFixResponses) :
         LET resp == IF api_key THEN AutoFixResponses[n] ELSE NoResp
             r == auto_fix_draft(api_key, draft, fact_checks, resp)
         IN  /\ fixed_draft' = r.value
             /\ llm_resp' = resp
             /\ returned_at' = r.line
             /\ llm_requests' = llm_requests + r.requests
    /\ auto_fix_calls' = auto_fix_calls + 1
    /\ pc' = "save_markdown"
    /\ calls' = Append(calls, "auto_fix_draft")
    /\ UNCHANGED <<inputs, evaluator, criteria, claims, fact_checks, score, reports,
                   exc, exit_code, search_resp, search_results, search_provider, search_calls,
                   search_requests>>

\* lines 636-639; output_dir.mkdir or write_text may raise OSError
SaveMarkdownReport ==
    /\ pc = "save_markdown"
    /\ \E writable \in BOOLEAN :
         IF writable
           THEN /\ report_md' = _save_text_report(fixed_draft, score)
                /\ pc' = "save_html"
                /\ UNCHANGED exc
           ELSE /\ exc' = RaisedIn(Raise("OSError"), "_save_markdown_report")
                /\ pc' = "except"
                /\ UNCHANGED report_md
    /\ calls' = Append(calls, "_save_markdown_report")
    /\ UNCHANGED <<inputs, evaluator, criteria, claims, fact_checks, score, fixed_draft,
                   report_html, report_json, exit_code, llm_resp, search_resp,
                   search_results, search_provider, returned_at, counters>>

\* lines 640-643
SaveHtmlReport ==
    /\ pc = "save_html"
    /\ report_html' = _save_text_report(fixed_draft, score)
    /\ pc' = "save_json"
    /\ calls' = Append(calls, "_save_html_report")
    /\ UNCHANGED <<inputs, evaluator, criteria, claims, fact_checks, score, fixed_draft,
                   report_md, report_json, exc, exit_code, llm_resp, search_resp,
                   search_results, search_provider, returned_at, counters>>

\* lines 644-659
SaveJsonReport ==
    /\ pc = "save_json"
    /\ report_json' = _save_json_report(draft, fixed_draft, score)
    /\ pc' = "finish"
    /\ calls' = Append(calls, "_save_json_report")
    /\ UNCHANGED <<inputs, evaluator, criteria, claims, fact_checks, score, fixed_draft,
                   report_md, report_html, exc, exit_code, llm_resp, search_resp,
                   search_results, search_provider, returned_at, counters>>

\* lines 923-929: sys.exit(2) raises SystemExit inside the try block; at the
\* end of main the process exits with code 0
Finish ==
    /\ pc = "finish"
    /\ IF BelowPoorThreshold(score)
         THEN /\ exc' = SystemExit(2)
              /\ pc' = "except"
              /\ UNCHANGED exit_code
         ELSE /\ exit_code' = 0
              /\ pc' = "exited"
              /\ UNCHANGED exc
    /\ UNCHANGED calls
    /\ UNCHANGED <<inputs, evaluator, criteria, claims, fact_checks, score, fixed_draft,
                   reports, llm_resp, search_resp, search_results, search_provider, returned_at, counters>>

\* the exit code the handler of lines 931-935 gives an exception it catches
HandlerExitCode == 1

\* what catches e: the handler "except Exception", or the interpreter, which
\* ends the process with the code of a SystemExit
ExitCodeOf(e) == IF IsException(e) THEN HandlerExitCode ELSE e.code

\* an exception raised in the try block of main, lines 931-935
Except ==
    /\ pc = "except"
    /\ exit_code' = ExitCodeOf(exc)
    /\ pc' = "exited"
    /\ UNCHANGED calls
    /\ UNCHANGED <<inputs, evaluator, criteria, claims, fact_checks, score, fixed_draft,
                   reports, exc, llm_resp, search_resp, search_results, search_provider, returned_at, counters>>

Next ==
    \/ Main
    \/ ExtractCriteria
    \/ ExtractClaims
    \/ FactCheckClaim
    \/ ScoreReport
    \/ AutoFixDraft
    \/ SaveMarkdownReport
    \/ SaveHtmlReport
    \/ SaveJsonReport
    \/ Finish
    \/ Except

Spec == Init /\ [][Next]_vars

-----------------------------------------------------------------------------
(* Properties                                                              *)

\* score_report has returned its score to generate_report
Scored ==
    \/ pc \in {"auto_fix", "save_markdown", "save_html", "save_json", "finish"}
    \/ pc \in {"except", "exited"} /\ exc.raised_in \in {"_save_markdown_report", "main"}
    \/ pc = "exited" /\ exit_code = 0

\* extract_claims has just returned
ClaimsExtracted ==
    pc \in {"fact_check", "score_report"} /\ returned_at \in {327, 364, 367}

\* fact_check_claim has just returned fact_checks[Len(fact_checks)]
FactChecked ==
    /\ pc \in {"fact_check", "score_report"}
    /\ returned_at \in {399, 447, 456}
    /\ exc = NoExc

\* C1: the score that score_report returns has overall equal to
\* 0.45*accuracy + 0.30*coverage + 0.15*citations_quality
\* + 0.10*clarity_structure of the same object; it is never the 0.0 the
\* object was constructed with.  (overall is in units of 1/(100*Scale), the
\* components in units of 1/Scale.)
OverallIsWeightedSum ==
    Scored => score.overall = 45 * score.accuracy + 30 * score.coverage
                              + 15 * score.citations_quality
                              + 10 * score.clarity_structure

\* a score with four positive components has been returned
OverallIsWeightedSumReached ==
    /\ Scored
    /\ score.accuracy > 0 /\ score.coverage > 0
    /\ score.citations_quality > 0 /\ score.clarity_structure > 0
    /\ score.overall > 0

\* C2: score_report never divides by zero, an empty fact_checks and an
\* empty must_include included, and in the score it returns accuracy,
\* coverage and citations_quality are in [0,5] and clarity_structure is in
\* [3,5]
ScoreInRange ==
    /\ ~(exc.type = "ZeroDivisionError" /\ exc.raised_in = "score_report")
    /\ Scored => /\ score.accuracy \in 0..(5 * Scale)
                 /\ score.coverage \in 0..(5 * Scale)
                 /\ score.citations_quality \in 0..(5 * Scale)
                 /\ score.clarity_structure \in (3 * Scale)..(5 * Scale)

\* a score has been returned for no fact-checks and an empty must_include
ScoreInRangeReached ==
    Scored /\ fact_checks = <<>> /\ criteria.must_include = StrList(<<>>)

\* the number m of sources of a result whose snippet shares more than 0.3 of
\* the words of the claim
Matching(fc) ==
    LET words == WordSet(Lower(fc.claim.v))
    IN  Cardinality({k \in 1..Len(fc.sources) :
          10 * Cardinality(words \cap WordSet(Lower(fc.sources[k].snippet)))
            > 3 * Cardinality(words)})

\* C3: a result returned by _fact_check_basic has verdict supported and
\* confidence 0.7 when m >= 2, insufficient and 0.5 when m = 1, insufficient
\* and 0.3 when m = 0, m being the number of sources whose word overlap with
\* the claim exceeds 0.3; it never has verdict contradicted
HeuristicVerdictPolicy ==
    (FactChecked /\ returned_at \in {399, 456}) =>
       LET fc == fact_checks[Len(fact_checks)]
           m == Matching(fc)
       IN  /\ m >= 2 => IsStr(fc.verdict, "supported") /\ fc.confidence = 70
           /\ m = 1 => IsStr(fc.verdict, "insufficient") /\ fc.confidence = 50
           /\ m = 0 => IsStr(fc.verdict, "insufficient") /\ fc.confidence = 30
           /\ ~IsStr(fc.verdict, "contradicted")

\* a run without a key, all results heuristic, has seen the three cases
HeuristicVerdictPolicyReached ==
    /\ FactChecked /\ returned_at = 399
    /\ \E i, j, k \in 1..Len(fact_checks) :
         /\ Matching(fact_checks[i]) >= 2
         /\ Matching(fact_checks[j]) = 1
         /\ Matching(fact_checks[k]) = 0

\* C4 as stated: extract_claims returns at most 10 claims on every path,
\* the language-model path included
AtMostTenClaims ==
    ClaimsExtracted => Len(claims) <= 10

\* C4, amended: extract_claims returns at most 10 claims on its fallback
\* path (lines 327 and 367); on the language-model path (line 364) it
\* returns one claim for every item of the array the model answered, however
\* many; generate_report checks at most 10 of them
ClaimsCappedOnFallbackOnly ==
    /\ (ClaimsExtracted /\ returned_at \in {327, 367}) => Len(claims) <= 10
    /\ (ClaimsExtracted /\ returned_at = 364) =>
          LET j == JsonLoads(StripFence(llm_resp.content))
          IN  j.t = "list" => Len(claims) = Len(j.v)
    /\ Len(fact_checks) <= 10
    /\ search_calls <= 10

\* more than 10 claims were returned and 10 of them checked
ClaimsCappedOnFallbackOnlyReached ==
    pc = "score_report" /\ Len(claims) > 10 /\ Len(fact_checks) = 10

\* texts are the stripped forms of some of the segments, in their order
RECURSIVE InOrder(_, _)
InOrder(texts, segments) ==
    IF texts = <<>> THEN TRUE
    ELSE IF segments = <<>> THEN FALSE
    ELSE IF Head(texts) = Strip(Head(segments))
      THEN InOrder(Tail(texts), Tail(segments))
      ELSE InOrder(texts, Tail(segments))

\* C5: _extract_claims_basic returns at most 10 claims, each with a
\* claim_text longer than 20 characters, priority medium and evidence_needed
\* "Web search verification", taken from the first 20 segments of
\* draft.split('.') and in the order of the draft
FallbackClaimsShape ==
    (ClaimsExtracted /\ returned_at \in {327, 367}) =>
       /\ Len(claims) <= 10
       /\ \A i \in 1..Len(claims) :
            /\ claims[i].claim_text.t = "str"
            /\ Len(claims[i].claim_text.v) > 20
            /\ claims[i].priority = PyStr("medium")
            /\ claims[i].evidence_needed = PyStr("Web search verification")
       /\ InOrder([i \in 1..Len(claims) |-> claims[i].claim_text.v],
                  Take(Split(draft, "."), 20))

\* the fallback returned 10 claims of a draft of more than 20 segments
FallbackClaimsShapeReached ==
    /\ ClaimsExtracted /\ returned_at \in {327, 367}
    /\ Len(claims) = 10
    /\ Len(Split(draft, ".")) > 20

\* the request of extract_criteria failed: no connection, a status that
\* raise_for_status rejects, a body without the message content, a content
\* that is no JSON text, or a JSON value that is no object with the five
\* fields
CriteriaCallFailed(resp) ==
    \/ resp.net = "error"
    \/ resp.status \notin 200..299
    \/ resp.body # "ok"
    \/ ~JsonParses(StripFence(resp.content))
    \/ JsonLoads(StripFence(resp.content)).t # "dict"
    \/ DOMAIN JsonLoads(StripFence(resp.content)).v # CriteriaFields

\* C6: extract_criteria returns a Criteria and raises nothing, whatever the
\* query and the outcome of the request; without an API key, and when the
\* request fails (network error, status outside 2xx, unparsable or malformed
\* response), it returns what _extract_criteria_basic gives for the query
CriteriaNeverFail ==
    pc = "extract_claims" =>
       /\ exc = NoExc
       /\ DOMAIN criteria = CriteriaFields
       /\ (~api_key \/ CriteriaCallFailed(llm_resp)) =>
             criteria = _extract_criteria_basic(user_query)

\* the model answered with a JSON text that is no Criteria, and the
\* fallback found something in the query
CriteriaNeverFailReached ==
    /\ pc = "extract_claims" /\ api_key
    /\ llm_resp.status = 200 /\ llm_resp.body = "ok"
    /\ JsonParses(StripFence(llm_resp.content))
    /\ CriteriaCallFailed(llm_resp)
    /\ criteria.must_include # StrList(<<>>)

\* C7 as stated: fact_check_claim returns a FactCheckResult and raises
\* nothing, for every claim extract_claims can produce, every search outcome
\* and every outcome of the request to the model
FactCheckNeverRaises ==
    exc.raised_in # "fact_check_claim"

\* C8: generate_report calls auto_fix_draft if and only if overall < 3.5;
\* when overall >= 3.5 (3.5 itself included) the writers get the original
\* draft, and report.json has auto_fixed false and fixed_draft_length null
RevisedIffBelowThreshold ==
    /\ ~Scored => auto_fix_calls = 0
    /\ (Scored /\ pc # "auto_fix") =>
          auto_fix_calls = IF score.overall < 350 * Scale THEN 1 ELSE 0
    /\ (Scored /\ score.overall >= 350 * Scale) =>
          /\ fixed_draft = draft
          /\ report_json.written =>
                /\ report_json.auto_fixed = FALSE
                /\ report_json.fixed_draft_length = PyNone

\* the three reports of a run with overall = 3.5 have been written
RevisedIffBelowThresholdReached ==
    Scored /\ score.overall = 350 * Scale /\ report_json.written

\* C9: the process exits with 0 when generate_report completes with
\* overall >= 3.0, with 2 when it completes with overall < 3.0, and with 1
\* when the draft file is missing or an exception leaves generate_report;
\* the SystemExit of sys.exit(2) is not turned into 1 by the handler
ExitCodeContract ==
    pc = "exited" =>
       /\ ~draft_exists => exit_code = 1
       /\ (draft_exists /\ ~report_json.written) =>
             exit_code = 1 /\ exc.type \notin {"none", "SystemExit"}
       /\ (report_json.written /\ score.overall >= 300 * Scale) => exit_code = 0
       /\ (report_json.written /\ score.overall < 300 * Scale) =>
             exit_code = 2 /\ exc = SystemExit(2)

\* a run has ended with code 2
ExitCodeContractReached ==
    pc = "exited" /\ exit_code = 2 /\ report_json.written

\* C10: without a configured provider every call of search returns the two
\* mock results, whose snippets contain the query, whatever num_results is,
\* and sends no request; no fact-check gets zero sources
MockSearchWithoutProvider ==
    (pc # "main" /\ providers = <<>>) =>
       /\ search_requests = 0
       /\ \A i \in 1..Len(fact_checks) : Len(fact_checks[i].sources) = 2
       /\ (search_calls > 0 /\ (\/ pc \in {"fact_check", "score_report"}
                               \/ exc.raised_in = "fact_check_claim")) =>
             LET query == ToCheck(claims)[search_calls].claim_text
             IN  /\ Len(search_results) = 2
                 /\ \A k \in 1..Len(search_results) :
                      Contains(search_results[k].snippet, Format(query))
                 /\ \A n \in {0, 1, 3, 4, 10} :
                      search(providers, query, n, search_resp).results = search_results

\* a search without a provider has returned
MockSearchWithoutProviderReached ==
    /\ providers = <<>> /\ search_calls > 0
    /\ pc = "fact_check"
    /\ search_results # <<>>

\* the first provider in the order of detection that the environment e
\* configures, "mock" when it configures none
FirstConfigured(e) ==
    IF "TAVILY_API_KEY" \in e THEN "tavily"
    ELSE IF "SERPAPI_KEY" \in e THEN "serpapi"
    ELSE IF "BING_API_KEY" \in e THEN "bing"
    ELSE IF "GOOGLE_API_KEY" \in e /\ "GOOGLE_CSE_ID" \in e THEN "google"
    ELSE "mock"

\* the request of a search failed: no connection, a status outside 2xx, or
\* a body that cannot be read
SearchRequestFailed(resp) ==
    resp.net = "error" \/ resp.status \notin 200..299 \/ resp.body # "ok"

\* C11: the provider is fixed when the SearchManager is constructed, as the
\* first configured one in the order tavily, serpapi, bing, google; every
\* search of the process uses that provider and sends one request to it;
\* when the request fails the call returns the empty list, and neither
\* another configured provider nor the mock results are used, in that call
\* or in a later one
ProviderFixedNoFailover ==
    (draft_exists /\ pc # "main") =>
       /\ providers = <<>> <=> FirstConfigured(env) = "mock"
       /\ providers # <<>> =>
            /\ providers[1] = FirstConfigured(env)
            /\ search_requests = search_calls
       /\ search_provider \in {"none", FirstConfigured(env)}
       /\ (providers # <<>> /\ search_provider # "none"
             /\ SearchRequestFailed(search_resp)) => search_results = <<>>

\* with two providers configured, a search after earlier ones has failed
\* and returned nothing
ProviderFixedNoFailoverReached ==
    /\ Len(providers) >= 2 /\ search_calls >= 3
    /\ search_provider = providers[1]
    /\ SearchRequestFailed(search_resp)
    /\ search_results = <<>>

\* the calls of a complete run of generate_report, for the claims and the
\* score of the run
ExpectedCalls ==
    <<"extract_criteria", "extract_claims">>
    \o [i \in 1..Min(Len(claims), 10) |-> "fact_check_claim"]
    \o <<"score_report">>
    \o (IF score.overall < 350 * Scale THEN <<"auto_fix_draft">> ELSE <<>>)
    \o <<"_save_markdown_report", "_save_html_report", "_save_json_report">>

\* C12: generate_report runs its stages in the order extract criteria,
\* extract claims, fact-check, score, revise when overall < 3.5, write
\* Markdown, write HTML, write JSON, each after the one before has
\* completed; score_report gets the complete list of fact-check results, and
\* no writer runs before the score and the revision are done
StagesInOrder ==
    /\ Len(calls) <= Len(ExpectedCalls)
    /\ \A k \in 1..Len(calls) : calls[k] = ExpectedCalls[k]
    /\ (\E k \in 1..Len(calls) : calls[k] = "score_report") =>
          Len(fact_checks) = Min(Len(claims), 10)
    /\ report_md.written =>
          /\ \E k \in 1..Len(calls) : calls[k] = "_save_markdown_report"
          /\ report_md.overall = score.overall
          /\ score.overall < 350 * Scale => auto_fix_calls = 1
    /\ report_html.written => report_md.written
    /\ report_json.written => report_html.written

\* a run with ten fact-checks and a revision has written its three reports
StagesInOrderReached ==
    /\ pc = "finish" /\ report_json.written
    /\ Len(fact_checks) = 10
    /\ auto_fix_calls = 1
    /\ Len(calls) = 17

\* the fact-check stage of generate_report is over
FactCheckStageDone ==
    \/ pc = "score_report"
    \/ \E k \in 1..Len(calls) : calls[k] = "score_report"

\* the number of calls of fact_check_claim so far
FactCheckCalls == Cardinality({k \in 1..Len(calls) : calls[k] = "fact_check_claim"})

\* C13: the fact-check stage checks the first min(n, 10) of the n extracted
\* claims, each once and in extraction order, whichever path produced the
\* result: fact_checks[i].claim is claims[i].claim_text, and the finished
\* list has length min(n, 10)
FactChecksFollowClaims ==
    /\ Len(fact_checks) <= Min(Len(claims), 10)
    /\ \A i \in 1..Len(fact_checks) : fact_checks[i].claim = claims[i].claim_text
    /\ FactCheckCalls = search_calls
    /\ FactCheckCalls = Len(fact_checks)
                          + (IF exc.raised_in = "fact_check_claim" THEN 1 ELSE 0)
    /\ FactCheckStageDone => Len(fact_checks) = Min(Len(claims), 10)

\* eleven claims were extracted and ten were checked, the last by the
\* heuristic after a failed request and an earlier one by the model's answer
FactChecksFollowClaimsReached ==
    /\ pc = "score_report"
    /\ Len(claims) = MaxItems
    /\ Len(fact_checks) = 10
    /\ returned_at = 456
    /\ \E i \in 1..9 : fact_checks[i].rationale = PyStr("Checked")

\* the three verdicts of the FactCheckResult entity
Verdicts == {PyStr("supported"), PyStr("contradicted"), PyStr("insufficient")}

\* C14: every FactCheckResult that fact_check_claim returns, from the
\* model's answer or from the heuristic, has one of the three verdicts and a
\* confidence between 0 and 1
VerdictAndConfidenceInRange ==
    \A i \in 1..Len(fact_checks) :
        /\ fact_checks[i].verdict \in Verdicts
        /\ fact_checks[i].confidence \in 0..100

\* the value is a list of strings
IsStrList(x) == x.t = "list" /\ \A k \in 1..Len(x.v) : x.v[k].t = "str"

\* C15: the Criteria that extract_criteria returns has exactly the five
\* fields, each a list of strings; an answer of the model that is no JSON or
\* does not have that shape is replaced by the heuristic criteria
CriteriaWellFormed ==
    Len(calls) >= 1 =>
        /\ DOMAIN criteria = CriteriaFields
        /\ \A f \in CriteriaFields : IsStrList(criteria[f])

\* the strings of a sequence, joined
RECURSIVE Concat(_)
Concat(strings) ==
    IF strings = <<>> THEN "" ELSE Head(strings) \o Concat(Tail(strings))

\* the fallback reviser has just returned fixed_draft
FallbackRevised ==
    pc = "save_markdown" /\ auto_fix_calls = 1 /\ returned_at \in {537, 580}

\* the warning paragraph for fact_checks[i], or nothing
NoteFor(i) ==
    IF fact_checks[i].verdict = PyStr("contradicted")
      THEN "\n**Note**: The claim '" \o Prefix(fact_checks[i].claim.v, 50)
             \o "...' may need verification.\n"
      ELSE ""

\* the numbered line of the sources section for fact_checks[i], or nothing
SourceLineFor(i) ==
    IF Len(fact_checks[i].sources) > 0
      THEN "[" \o IntStr(i) \o "] " \o fact_checks[i].sources[1].url \o "\n"
      ELSE ""

\* C16: the fallback reviser returns the draft, then one warning paragraph
\* for each contradicted fact-check in order, then a sources section if and
\* only if the text has no Sources or References heading; the section has a
\* numbered line with the first source URL for each of the first five
\* fact-checks that has a source
FallbackRevisionShape ==
    FallbackRevised =>
        LET n == Len(fact_checks)
            warned == draft \o Concat([i \in 1..n |-> NoteFor(i)])
            heading == Contains(warned, "## Sources") \/ Contains(warned, "## References")
            section == "\n\n## Sources\n" \o Concat([i \in 1..Min(n, 5) |-> SourceLineFor(i)])
        IN  /\ Prefix(fixed_draft, Len(draft)) = draft
            /\ Prefix(fixed_draft, Len(warned)) = warned
            /\ heading => fixed_draft = warned
            /\ ~heading => fixed_draft = warned \o section

\* a fallback revision of a draft without heading, over more than five
\* fact-checks, of which a contradicted one has no source and another has
FallbackRevisionShapeReached ==
    /\ FallbackRevised
    /\ Len(fact_checks) > 5
    /\ ~Contains(draft, "## Sources")
    /\ \E i \in 1..5 : /\ fact_checks[i].verdict = PyStr("contradicted")
                       /\ fact_checks[i].sources = <<>>
    /\ \E i \in 1..5 : fact_checks[i].sources # <<>>
    /\ \E i \in 6..Len(fact_checks) : fact_checks[i].sources # <<>>

\* the three writers of generate_report
Writers == {"_save_markdown_report", "_save_html_report", "_save_json_report"}

\* the lines from which the methods return when no key is configured
KeylessReturns == {0, 260, 327, 399, 530, 537}

\* C17: a missing API key or a missing search credential never aborts the
\* pipeline.  Without a key no request goes to the language model, every
\* stage returns from its fallback, and nothing is raised before the
\* writers, so the run writes its three reports unless a writer fails;
\* without a search credential no search request is sent; and whatever the
\* configuration, an exception before the writers occurs only in a run that
\* has a key and has received an answer of the model
ConfigAbsenceNeverAborts ==
    draft_exists =>
       /\ "OPENAI_API_KEY" \notin env =>
             /\ llm_requests = 0
             /\ returned_at \in KeylessReturns
             /\ IsException(exc) => exc.type = "OSError" /\ exc.raised_in \in Writers
             /\ pc = "exited" => (report_json.written \/ exc.raised_in \in Writers)
             /\ (pc = "exited" /\ report_json.written) => exit_code \in {0, 2}
       /\ FirstConfigured(env) = "mock" => search_requests = 0
       /\ (IsException(exc) /\ exc.raised_in \notin Writers) =>
             "OPENAI_API_KEY" \in env /\ llm_requests > 0

\* a run without key and without search credential has checked claims,
\* revised the draft and written the three reports
ConfigAbsenceNeverAbortsReached ==
    /\ "OPENAI_API_KEY" \notin env /\ FirstConfigured(env) = "mock"
    /\ pc = "exited" /\ report_json.written
    /\ Len(fact_checks) >= 1
    /\ auto_fix_calls = 1
    /\ llm_requests = 0 /\ search_requests = 0

\* the methods of generate_report that call the language model
LLMBacked == {"extract_criteria", "extract_claims", "fact_check_claim", "auto_fix_draft"}

\* the number of calls of those methods so far
LLMBackedCalls == Cardinality({k \in 1..Len(calls) : calls[k] \in LLMBacked})

\* C18: no external call is retried.  Each call of extract_criteria,
\* extract_claims, fact_check_claim and auto_fix_draft sends at most one
\* request to the language model, also when the request fails; each
\* fact_check_claim makes one search, whose results are the sources of its
\* result on the model path and on the fallback path; a run over n claims
\* makes at most 2 + min(n, 10) + 1 language-model requests and min(n, 10)
\* searches
NoRetry ==
    /\ llm_requests <= LLMBackedCalls
    /\ "OPENAI_API_KEY" \in env => llm_requests = LLMBackedCalls
    /\ llm_requests <= 2 + Min(Len(claims), 10) + 1
    /\ search_calls = FactCheckCalls
    /\ search_requests <= search_calls
    /\ search_calls <= Min(Len(claims), 10)
    /\ FactCheckStageDone => search_calls = Min(Len(claims), 10)
    /\ (FactChecked /\ Len(fact_checks) > 0) =>
          fact_checks[Len(fact_checks)].sources = search_results

\* a run over eleven claims has made thirteen requests, of which the last
\* failed, and ten searches
NoRetryReached ==
    /\ pc = "save_markdown"
    /\ Len(claims) > 10
    /\ llm_requests = 13
    /\ search_calls = 10 /\ search_requests = 10
    /\ returned_at = 580
    /\ \E i \in 1..10 : fact_checks[i].rationale # PyStr("Checked")
                          /\ fact_checks[i].sources # <<>>

\* neither an API key nor a search credential is configured
FullyUnconfigured == "OPENAI_API_KEY" \notin env /\ FirstConfigured(env) = "mock"

\* C19: in a run with neither key nor search provider every claim of the
\* fallback extractor is fact-checked as supported with confidence 0.7, and
\* accuracy is 5.0 when at least one claim was extracted and 0.0 when none
\* was, whatever the draft
UnconfiguredAllSupported ==
    (draft_exists /\ FullyUnconfigured) =>
        /\ \A i \in 1..Len(fact_checks) :
              /\ fact_checks[i].verdict = PyStr("supported")
              /\ fact_checks[i].confidence = 70
              /\ fact_checks[i].rationale = PyStr("Found 2 sources with matching content")
        /\ Scored => score.accuracy = (IF Len(claims) >= 1 THEN 5 * Scale ELSE 0)

\* an unconfigured run over ten claims has been scored
UnconfiguredAllSupportedReached ==
    /\ FullyUnconfigured /\ Scored
    /\ Len(claims) = 10 /\ Len(fact_checks) = 10
    /\ score.accuracy = 5 * Scale

\* C20: in every report.json, fixed_draft_length is null exactly when
\* auto_fixed is false; when the revision ran it is the length of the
\* revised draft
FixedLengthIffAutoFixed ==
    report_json.written =>
        /\ report_json.fixed_draft_length = PyNone <=> ~report_json.auto_fixed
        /\ report_json.auto_fixed =>
              report_json.fixed_draft_length = PyInt(Len(fixed_draft))

====
